---- MODULE Spec2Model ----
(***************************************************************************)
(* Model of the two Python extension entry points of canonicalize_media:   *)
(*   ffmpeg()              src/src/ffmpeg.cpp                              *)
(*   dump_container_data() src/avformat_interface.cpp                      *)
(* One call is one behaviour.  Every libav* / CPython call whose result    *)
(* the code tests (or should test) is a step with a nondeterministic       *)
(* outcome.  The container (streams, chapters, byte size) is fixed by      *)
(* Init, as the file on disk is fixed before the call.                     *)
(*                                                                         *)
(* Strings are TLA+ strings, except the FourCC text, which is a sequence   *)
(* of character codes so that its characters can be counted and compared.  *)
(* Floating point (av_q2d, the division of the bitrate estimate) is        *)
(* modelled by exact rational arithmetic followed by the truncation of    *)
(* the (int64_t) cast; rounding error of doubles is not modelled.          *)
(***************************************************************************)
EXTENDS Integers, Sequences, FiniteSets, TLC

\* ------------------------------------------------------------------ bounds
MaxStreams == 2
MaxChapters == 2
\* how many unchecked PyDict_SetItemString failures one call may suffer
MaxFaults == 1

\* ------------------------------------------------------- values and inputs
\* the null pointer of a const char* / AVDictionaryEntry* / AVCodecDescriptor*
NULL == "<NULL>"

\* av_q2d(time_base) is num / (double) den; the rational is kept as a pair
Rational(n, d) == [num |-> n, den |-> d]

\* One AVStream with its AVCodecParameters and metadata, as the demuxer
\* leaves them.  profile_name, language, title and long_name are what
\* avcodec_profile_name / av_dict_get / avcodec_descriptor_get would return.
AVStream(type, name, br, dur, tb, pname, lang, ttl, long, tag) ==
    [codec_type |-> type, codec_name |-> name, bit_rate |-> br,
     duration |-> dur, time_base |-> tb, profile |-> 100,
     profile_name |-> pname, level |-> 41, width |-> 1920, height |-> 1080,
     language |-> lang, title |-> ttl, long_name |-> long, codec_tag |-> tag]

VideoStream ==
    AVStream("VIDEO", "h264", 0, 10, Rational(1, 1), "High", NULL, NULL, "H.264", 0)
VideoNoProfile ==
    AVStream("VIDEO", "vp8", 5, 10, Rational(1, 1), NULL, NULL, NULL, "VP8", 0)
AudioStream ==
    AVStream("AUDIO", "aac", 0, 10, Rational(1, 1), NULL, "eng", NULL, "AAC", 0)
SubtitleStream ==
    AVStream("SUBTITLE", "mov_text", 0, 10, Rational(1, 1), NULL, "fra", NULL, NULL, 1634756980)
DataStream ==
    AVStream("DATA", "bin_data", 0, 10, Rational(1, 1), NULL, NULL, NULL, NULL, 0)
UnknownStream ==
    AVStream("UNKNOWN", "none", 0, 10, Rational(1, 1), NULL, NULL, NULL, NULL, 0)

\* the stream kinds in the order the files considered run through them
StreamCycle ==
    <<VideoStream, AudioStream, SubtitleStream, VideoNoProfile, DataStream,
      UnknownStream>>

\* the stream lists of the files considered: every run of at most MaxStreams
\* consecutive streams of the cycle, from every starting point
StreamLists ==
    {[p \in 1..m |-> StreamCycle[((o + p - 2) % Len(StreamCycle)) + 1]] :
        o \in 1..Len(StreamCycle), m \in 0..MaxStreams}

AVChapter(id, s, e, tb, ttl) ==
    [id |-> id, start |-> s, end |-> e, time_base |-> tb, title |-> ttl]

\* the n-th chapter of the files considered: ids 7, 3, 9, 5, ... are distinct
\* and not in ascending order; every second chapter has a title
ChapterAt(n) ==
    AVChapter(IF n % 2 = 1 THEN 6 + n ELSE 1 + n,
              9000 * (n - 1), 9000 * n, Rational(1, 9000),
              IF n % 2 = 1 THEN NULL ELSE "Intro")

ChapterLists == {[n \in 1..m |-> ChapterAt(n)] : m \in 0..MaxChapters}

\* avio_size(fmt_ctx->pb), or 0 when there is no pb
FileSizes == {0, 1250000}

Functions == {"ffmpeg", "dump_container_data"}

\* ---------------------------------------------------------- pure helpers
Abs(x) == IF x < 0 THEN -x ELSE x

\* the (int64_t) cast of the finite quotient a / b: truncation toward zero
QuotTrunc(a, b) ==
    LET q == Abs(a) \div Abs(b)
    IN  IF (a < 0) # (b < 0) THEN -q ELSE q

\* (int64_t) of an infinite double is undefined: x86-64 yields INT64_MIN,
\* AArch64 saturates to INT64_MAX.  The two are stood for by the extremes
\* of the integers of the model.
CastOfInfinity == {-(2^30), 2^30 - 1}

\* the bit_rate a video stream gets: the set of values the build can emit
VideoBitRate(stream, file_size) ==
    IF stream.bit_rate # 0 THEN {stream.bit_rate}
    ELSE IF stream.duration > 0 /\ file_size > 0
         THEN LET ticks_num == stream.duration * stream.time_base.num
              IN  IF ticks_num = 0
                  THEN CastOfInfinity
                  ELSE {QuotTrunc(file_size * 8 * stream.time_base.den, ticks_num)}
         ELSE {0}

\* av_fourcc_make_string prints a byte as itself when it is one of
\* [0-9a-zA-Z. _-], and as "[<decimal>]" otherwise
Printable(c) ==
    c \in (48..57) \cup (97..122) \cup (65..90) \cup {46, 32, 45, 95}

Decimal(c) ==
    IF c < 10 THEN <<48 + c>>
    ELSE IF c < 100 THEN <<48 + (c \div 10), 48 + (c % 10)>>
    ELSE <<48 + (c \div 100), 48 + ((c \div 10) % 10), 48 + (c % 10)>>

FourccChar(c) == IF Printable(c) THEN <<c>> ELSE <<91>> \o Decimal(c) \o <<93>>

\* the k-th byte of a 32-bit tag, k = 0 for the least significant
TagByte(tag, k) == (tag \div (256 ^ k)) % 256

av_fourcc_make_string(tag) ==
    FourccChar(TagByte(tag, 0)) \o FourccChar(TagByte(tag, 1))
        \o FourccChar(TagByte(tag, 2)) \o FourccChar(TagByte(tag, 3))

av_get_media_type_string(codec_type) ==
    CASE codec_type = "VIDEO" -> "video"
      [] codec_type = "AUDIO" -> "audio"
      [] codec_type = "SUBTITLE" -> "subtitle"
      [] codec_type = "DATA" -> "data"
      [] OTHER -> NULL

\* One add_int_to_dict / add_str_to_dict / add_double_to_dict call: the key,
\* the values the argument can have, and whether it is a null char*
Field(key, vals, null) == [key |-> key, vals |-> vals, null |-> null]
IntField(key, vals) == Field(key, vals, FALSE)
StrField(key, ptr) == Field(key, {ptr}, ptr = NULL)
BufField(key, chars) == Field(key, {chars}, FALSE)

\* CommonFields with the index counted from 1
CommonFieldsOneBased(stream, idx) ==
    << IntField("index", {idx + 1}),
       StrField("type", av_get_media_type_string(stream.codec_type)),
       StrField("codec", stream.codec_name) >>

CommonFields(stream, idx) ==
    << IntField("index", {idx}),
       StrField("type", av_get_media_type_string(stream.codec_type)),
       StrField("codec", stream.codec_name) >>

VideoFields(stream, file_size) ==
    << IntField("bit_rate", VideoBitRate(stream, file_size)),
       IntField("profile", {stream.profile}),
       StrField("profile_name", stream.profile_name),
       IntField("level", {stream.level}),
       IntField("width", {stream.width}),
       IntField("height", {stream.height}) >>

AudioFields(stream) == << IntField("bit_rate", {stream.bit_rate}) >>

\* SubtitleFields without codec_long
SubtitleFieldsNoLong(stream) ==
    << StrField("language",
                IF stream.language # NULL THEN stream.language ELSE "und"),
       StrField("title", IF stream.title # NULL THEN stream.title ELSE ""),
       StrField("codec", stream.codec_name),
       BufField("format", av_fourcc_make_string(stream.codec_tag)) >>

SubtitleFields(stream) ==
    << StrField("language",
                IF stream.language # NULL THEN stream.language ELSE "und"),
       StrField("title", IF stream.title # NULL THEN stream.title ELSE ""),
       StrField("codec", stream.codec_name),
       StrField("codec_long",
                IF stream.long_name # NULL THEN stream.long_name
                                           ELSE stream.codec_name),
       BufField("format", av_fourcc_make_string(stream.codec_tag)) >>

\* the add_*_to_dict calls ffmpeg() makes for stream idx, in order
StreamFields(stream, idx, file_size) ==
    CommonFields(stream, idx) \o
    ( CASE stream.codec_type = "VIDEO" -> VideoFields(stream, file_size)
        [] stream.codec_type = "AUDIO" -> AudioFields(stream)
        [] stream.codec_type = "SUBTITLE" -> SubtitleFields(stream)
        [] OTHER -> << >> )

\* the add_*_to_dict calls dump_container_data() makes for stream idx
DumpFields(stream, idx) ==
    CommonFields(stream, idx) \o
    ( CASE stream.codec_type = "VIDEO" ->
             << IntField("bit_rate", {stream.bit_rate}),
                IntField("profile", {stream.profile}),
                IntField("level", {stream.level}),
                IntField("width", {stream.width}),
                IntField("height", {stream.height}) >>
        [] stream.codec_type = "AUDIO" ->
             << IntField("bit_rate", {stream.bit_rate}) >>
        [] OTHER -> << >> )

\* seconds as the exact rational ticks * num / den
Seconds(ticks, tb) == Rational(ticks * tb.num, tb.den)

\* the add_*_to_dict calls ffmpeg() makes for one chapter, in order
ChapterFields(chapter) ==
    << IntField("id", {chapter.id}),
       IntField("start_time", {Seconds(chapter.start, chapter.time_base)}),
       IntField("end_time", {Seconds(chapter.end, chapter.time_base)}),
       StrField("title", IF chapter.title # NULL THEN chapter.title ELSE "") >>

\* a Python dict: a function from its keys
EmptyDict == [key \in {} |-> 0]

PyDict_SetItemString(dict, key, val) ==
    [x \in DOMAIN dict \cup {key} |-> IF x = key THEN val ELSE dict[x]]

\* what reading a string through a null pointer may hand to Python when
\* the process survives it
GarbageStrings == {"", "?"}

\* ------------------------------------------------------------------- state
VARIABLES
    fn,             \* which entry point is called
    fmt_ctx,        \* what the demuxer exposes of the file
    pc,             \* position of the call
    handle,         \* the AVFormatContext: "none", "open" or "closed"
    result,         \* the result dict
    streams_list,   \* the streams list
    stream_dict,    \* the dict of the stream being described
    chapters_list,  \* the chapters list
    chap_dict,      \* the dict of the chapter being described
    i, j,           \* loop counters of the stream and the chapter loop
    k,              \* the next add_*_to_dict call of the current record
    decrefs,        \* object created by the call |-> Py_DECREFs the call did on it
    pyerr,          \* the interpreter's error indicator
    ret,            \* what the call returned: "none" yet, "NULL" or "result"
    faults          \* unchecked PyDict_SetItemString failures so far

vars == <<fn, fmt_ctx, pc, handle, result, streams_list, stream_dict,
          chapters_list, chap_dict, i, j, k, decrefs, pyerr, ret, faults>>

\* files with streams of several kinds and with chapters
MixedContainers ==
    [streams : StreamLists, chapters : ChapterLists, file_size : FileSizes]

\* files with one video stream: reported bitrates, durations (negative as
\* AV_NOPTS_VALUE is), time bases and byte sizes (negative as an avio_size
\* error is) of every sign
VideoContainers ==
    {[streams |-> << AVStream("VIDEO", "h264", br, dur, Rational(n, d),
                              "High", NULL, NULL, "H.264", 0) >>,
      chapters |-> << >>,
      file_size |-> size] :
        br \in {0, 5}, dur \in {-10, 0, 3, 10}, n \in {-1, 0, 1},
        d \in {1, 10}, size \in {-1, 0, 3, 1250000}}

\* a 32-bit tag from its four bytes, least significant first
Tag(b0, b1, b2, b3) == b0 + 256 * b1 + 65536 * b2 + 16777216 * b3

\* files with one subtitle stream: codec tags of printable bytes ("tipa" is
\* 116, 105, 112, 97), of unprintable ones and of bytes above 127
SubtitleContainers ==
    {[streams |-> << AVStream("SUBTITLE", "mov_text", 0, 10, Rational(1, 1),
                              NULL, NULL, "t", "MOV text",
                              Tag(b0, b1, b2, b3)) >>,
      chapters |-> << >>,
      file_size |-> 0] :
        b0 \in {116, 0, 128}, b1 \in {105, 32, 255}, b2 \in {112, 91},
        b3 \in {97, 1}}

Containers == MixedContainers \cup VideoContainers \cup SubtitleContainers

Init ==
    /\ fn \in Functions
    /\ fmt_ctx \in Containers
    /\ fn = "dump_container_data" =>  \* which reads neither of the two
          fmt_ctx.chapters = << >> /\ fmt_ctx.file_size = 0
    /\ pc = "entry"
    /\ handle = "none"
    /\ result = EmptyDict
    /\ streams_list = << >>
    /\ stream_dict = EmptyDict
    /\ chapters_list = << >>
    /\ chap_dict = EmptyDict
    /\ i = 0
    /\ j = 0
    /\ k = 1
    /\ decrefs = EmptyDict
    /\ pyerr = "none"
    /\ ret = "none"
    /\ faults = 0

\* the objects the call creates
Result == <<"result", 0>>
StreamsList == <<"streams_list", 0>>
StreamDict(n) == <<"stream_dict", n>>
ChaptersList == <<"chapters_list", 0>>
ChapDict(n) == <<"chap_dict", n>>

\* a PyDict_New / PyList_New that succeeded: the call owns one reference
Py_NEW(obj) ==
    decrefs' = [x \in DOMAIN decrefs \cup {obj} |->
                   IF x = obj THEN 0 ELSE decrefs[x]]

Py_DECREF(objs) ==
    decrefs' = [x \in DOMAIN decrefs |->
                   decrefs[x] + (IF x \in objs THEN 1 ELSE 0)]

\* return value together with the error indicator it leaves
Return(value, err) ==
    /\ pc' = "returned"
    /\ ret' = value
    /\ pyerr' = err

nb_streams == Len(fmt_ctx.streams)
nb_chapters == Len(fmt_ctx.chapters)

\* ----------------------------------------------------------------- actions
\* PyUnicode_Check(input_file)
CheckInput ==
    /\ pc = "entry"
    /\ \E is_str \in BOOLEAN :
         IF is_str
         THEN pc' = "open" /\ UNCHANGED <<ret, pyerr>>
         ELSE Return("NULL", "TypeError")
    /\ UNCHANGED <<fn, fmt_ctx, handle, result, streams_list, stream_dict,
                   chapters_list, chap_dict, i, j, k, decrefs, faults>>

\* avformat_open_input: on failure it leaves no context behind
OpenInput ==
    /\ pc = "open"
    /\ \/ handle' = "open" /\ pc' = "probe" /\ UNCHANGED <<ret, pyerr>>
       \/ Return("NULL", "RuntimeError") /\ UNCHANGED handle
    /\ UNCHANGED <<fn, fmt_ctx, result, streams_list, stream_dict,
                   chapters_list, chap_dict, i, j, k, decrefs, faults>>

\* avformat_find_stream_info; its failure branch calls avformat_close_input
FindStreamInfo ==
    /\ pc = "probe"
    /\ \/ pc' = "new_result" /\ UNCHANGED <<handle, ret, pyerr>>
       \/ handle' = "closed" /\ Return("NULL", "RuntimeError")
    /\ UNCHANGED <<fn, fmt_ctx, result, streams_list, stream_dict,
                   chapters_list, chap_dict, i, j, k, decrefs, faults>>

\* result = PyDict_New()
NewResult ==
    /\ pc = "new_result"
    /\ \/ /\ result' = EmptyDict
          /\ Py_NEW(Result)
          /\ pc' = "new_streams_list"
          /\ UNCHANGED <<ret, pyerr>>
       \/ Return("NULL", "RuntimeError") /\ UNCHANGED <<result, decrefs>>
    /\ UNCHANGED <<fn, fmt_ctx, handle, streams_list, stream_dict,
                   chapters_list, chap_dict, i, j, k, faults>>

\* streams_list = PyList_New(0)
NewStreamsList ==
    /\ pc = "new_streams_list"
    /\ \/ /\ streams_list' = << >>
          /\ Py_NEW(StreamsList)
          /\ pc' = "stream_loop"
          /\ UNCHANGED <<ret, pyerr>>
       \/ /\ Py_DECREF({Result})
          /\ Return("NULL", "RuntimeError")
          /\ UNCHANGED streams_list
    /\ UNCHANGED <<fn, fmt_ctx, handle, result, stream_dict,
                   chapters_list, chap_dict, i, j, k, faults>>

\* head of the stream loop with i < nb_streams: stream_dict = PyDict_New()
NewStreamDict ==
    /\ pc = "stream_loop"
    /\ i < nb_streams
    /\ \/ /\ stream_dict' = EmptyDict
          /\ Py_NEW(StreamDict(i))
          /\ k' = 1
          /\ pc' = "fields"
          /\ UNCHANGED <<ret, pyerr>>
       \/ /\ Py_DECREF({Result, StreamsList})
          /\ Return("NULL", "RuntimeError")
          /\ UNCHANGED <<stream_dict, k>>
    /\ UNCHANGED <<fn, fmt_ctx, handle, result, streams_list,
                   chapters_list, chap_dict, i, j, faults>>

\* the add_*_to_dict calls of the stream being described, in order
Plan ==
    IF fn = "ffmpeg"
    THEN StreamFields(fmt_ctx.streams[i + 1], i, fmt_ctx.file_size)
    ELSE DumpFields(fmt_ctx.streams[i + 1], i)

\* One add_*_to_dict(stream_dict, key, value) and the test of its result.
\* The value object may fail to be created (the lambda returns false and
\* the caller cleans up and returns NULL); PyDict_SetItemString may fail,
\* which nothing tests; a null char* is read by PyUnicode_FromString, which
\* either kills the process or yields whatever bytes are found.
AddStreamField ==
    /\ pc = "fields"
    /\ k <= Len(Plan)
    /\ LET f == Plan[k] IN
       \/ /\ f.null
          /\ pc' = "crashed"
          /\ UNCHANGED <<stream_dict, k, decrefs, pyerr, ret, faults>>
       \/ \E val \in (IF f.null THEN GarbageStrings ELSE f.vals) :
            \/ /\ Py_DECREF({Result, StreamDict(i), StreamsList})
               /\ Return("NULL", "RuntimeError")
               /\ UNCHANGED <<stream_dict, k, faults>>
            \/ /\ stream_dict' = PyDict_SetItemString(stream_dict, f.key, val)
               /\ k' = k + 1
               /\ UNCHANGED <<pc, decrefs, pyerr, ret, faults>>
            \/ /\ faults < MaxFaults
               /\ faults' = faults + 1
               /\ pyerr' = "MemoryError"
               /\ k' = k + 1
               /\ UNCHANGED <<pc, stream_dict, decrefs, ret>>
    /\ UNCHANGED <<fn, fmt_ctx, handle, result, streams_list,
                   chapters_list, chap_dict, i, j>>

\* PyList_Append(streams_list, stream_dict), then Py_DECREF(stream_dict)
AppendStream ==
    /\ pc = "fields"
    /\ k > Len(Plan)
    /\ \/ /\ streams_list' = Append(streams_list, stream_dict)
          /\ Py_DECREF({StreamDict(i)})
          /\ i' = i + 1
          /\ pc' = "stream_loop"
          /\ UNCHANGED <<ret, pyerr>>
       \/ /\ Py_DECREF({Result, StreamDict(i), StreamsList})
          /\ Return("NULL", "RuntimeError")
          /\ UNCHANGED <<streams_list, i>>
    /\ UNCHANGED <<fn, fmt_ctx, handle, result, stream_dict,
                   chapters_list, chap_dict, j, k, faults>>

\* after the loop: PyDict_SetItemString(result, "streams", streams_list),
\* untested, then Py_DECREF(streams_list)
AttachStreams ==
    /\ pc = "stream_loop"
    /\ i >= nb_streams
    /\ \/ /\ result' = PyDict_SetItemString(result, "streams", streams_list)
          /\ UNCHANGED <<pyerr, faults>>
       \/ /\ faults < MaxFaults
          /\ faults' = faults + 1
          /\ pyerr' = "MemoryError"
          /\ UNCHANGED result
    /\ Py_DECREF({StreamsList})
    /\ pc' = IF fn = "ffmpeg" THEN "chapters" ELSE "return"
    /\ UNCHANGED <<fn, fmt_ctx, handle, streams_list, stream_dict,
                   chapters_list, chap_dict, i, j, k, ret>>

\* fmt_ctx->nb_chapters > 0: chapters_list = PyList_New(0)
NewChaptersList ==
    /\ pc = "chapters"
    /\ nb_chapters > 0
    /\ \/ /\ chapters_list' = << >>
          /\ Py_NEW(ChaptersList)
          /\ j' = 0
          /\ pc' = "chapter_loop"
          /\ UNCHANGED <<ret, pyerr>>
       \/ /\ Py_DECREF({Result})
          /\ Return("NULL", "RuntimeError")
          /\ UNCHANGED <<chapters_list, j>>
    /\ UNCHANGED <<fn, fmt_ctx, handle, result, streams_list, stream_dict,
                   chap_dict, i, k, faults>>

\* fmt_ctx->nb_chapters > 0 is false: the chapter block is skipped
SkipChapters ==
    /\ pc = "chapters"
    /\ ~(nb_chapters > 0)
    /\ pc' = "return"
    /\ UNCHANGED <<fn, fmt_ctx, handle, result, streams_list, stream_dict,
                   chapters_list, chap_dict, i, j, k, decrefs, pyerr, ret,
                   faults>>

\* head of the chapter loop with j < nb_chapters: chap_dict = PyDict_New()
NewChapterDict ==
    /\ pc = "chapter_loop"
    /\ j < nb_chapters
    /\ \/ /\ chap_dict' = EmptyDict
          /\ Py_NEW(ChapDict(j))
          /\ k' = 1
          /\ pc' = "chapter_fields"
          /\ UNCHANGED <<ret, pyerr>>
       \/ /\ Py_DECREF({ChaptersList, Result})
          /\ Return("NULL", "RuntimeError")
          /\ UNCHANGED <<chap_dict, k>>
    /\ UNCHANGED <<fn, fmt_ctx, handle, result, streams_list, stream_dict,
                   chapters_list, i, j, faults>>

\* ChapterPlan reading chapters[0] in every round of the loop
ChapterPlanFirst == ChapterFields(fmt_ctx.chapters[1])

\* the add_*_to_dict calls of the chapter being described, in order
ChapterPlan == ChapterFields(fmt_ctx.chapters[j + 1])

\* one add_*_to_dict(chap_dict, key, value) and the test of its result
AddChapterField ==
    /\ pc = "chapter_fields"
    /\ k <= Len(ChapterPlan)
    /\ LET f == ChapterPlan[k] IN
       \E val \in f.vals :
            \/ /\ Py_DECREF({ChapDict(j), ChaptersList})
               /\ Return("NULL", "RuntimeError")
               /\ UNCHANGED <<chap_dict, k, faults>>
            \/ /\ chap_dict' = PyDict_SetItemString(chap_dict, f.key, val)
               /\ k' = k + 1
               /\ UNCHANGED <<pc, decrefs, pyerr, ret, faults>>
            \/ /\ faults < MaxFaults
               /\ faults' = faults + 1
               /\ pyerr' = "MemoryError"
               /\ k' = k + 1
               /\ UNCHANGED <<pc, chap_dict, decrefs, ret>>
    /\ UNCHANGED <<fn, fmt_ctx, handle, result, streams_list, stream_dict,
                   chapters_list, i, j>>

\* PyList_Append(chapters_list, chap_dict), then Py_DECREF(chap_dict)
AppendChapter ==
    /\ pc = "chapter_fields"
    /\ k > Len(ChapterPlan)
    /\ \/ /\ chapters_list' = Append(chapters_list, chap_dict)
          /\ Py_DECREF({ChapDict(j)})
          /\ j' = j + 1
          /\ pc' = "chapter_loop"
          /\ UNCHANGED <<ret, pyerr>>
       \/ /\ Py_DECREF({ChapDict(j), ChaptersList, Result})
          /\ Return("NULL", "RuntimeError")
          /\ UNCHANGED <<chapters_list, j>>
    /\ UNCHANGED <<fn, fmt_ctx, handle, result, streams_list, stream_dict,
                   chap_dict, i, k, faults>>

\* after the loop: PyDict_SetItemString(result, "chapters", chapters_list),
\* tested, then Py_DECREF(chapters_list)
AttachChapters ==
    /\ pc = "chapter_loop"
    /\ j >= nb_chapters
    /\ \/ /\ result' = PyDict_SetItemString(result, "chapters", chapters_list)
          /\ Py_DECREF({ChaptersList})
          /\ pc' = "return"
          /\ UNCHANGED <<ret, pyerr>>
       \/ /\ Py_DECREF({ChaptersList, Result})
          /\ Return("NULL", "RuntimeError")
          /\ UNCHANGED result
    /\ UNCHANGED <<fn, fmt_ctx, handle, streams_list, stream_dict,
                   chapters_list, chap_dict, i, j, k, faults>>

\* return result;
ReturnResult ==
    /\ pc = "return"
    /\ pc' = "returned"
    /\ ret' = "result"
    /\ UNCHANGED <<fn, fmt_ctx, handle, result, streams_list, stream_dict,
                   chapters_list, chap_dict, i, j, k, decrefs, pyerr, faults>>

Next ==
    \/ CheckInput
    \/ OpenInput
    \/ FindStreamInfo
    \/ NewResult
    \/ NewStreamsList
    \/ NewStreamDict
    \/ AddStreamField
    \/ AppendStream
    \/ AttachStreams
    \/ NewChaptersList
    \/ SkipChapters
    \/ NewChapterDict
    \/ AddChapterField
    \/ AppendChapter
    \/ AttachChapters
    \/ ReturnResult

Spec == Init /\ [][Next]_vars

\* ------------------------------------------------------------ properties
\* The call ended the way the Python C API defines success: an object is
\* returned and the error indicator is clear.
Success == pc = "returned" /\ ret = "result" /\ pyerr = "none"

IsVideo(stream) == stream.codec_type = "VIDEO"
IsSubtitle(stream) == stream.codec_type = "SUBTITLE"

\* the fields the specification prescribes for a stream of a kind
KindFields(codec_type) ==
    {"index", "type", "codec"} \cup
    ( CASE codec_type = "VIDEO" ->
             {"bit_rate", "profile", "profile_name", "level", "width", "height"}
        [] codec_type = "AUDIO" -> {"bit_rate"}
        [] codec_type = "SUBTITLE" ->
             {"language", "title", "codec_long", "format"}
        [] OTHER -> {} )

\* the streams list of the result holds a record for stream p of the file
Described(p) ==
    /\ "streams" \in DOMAIN result
    /\ p \in DOMAIN result.streams

\* the result holds every stream with every field of its kind, the streams
\* list, and the chapters list when the file has chapters
FullyPopulated ==
    /\ "streams" \in DOMAIN result
    /\ Len(result.streams) = nb_streams
    /\ \A p \in 1..nb_streams :
         DOMAIN result.streams[p] = KindFields(fmt_ctx.streams[p].codec_type)
    /\ nb_chapters > 0 => "chapters" \in DOMAIN result

\* C1: a call that opened the container has released the handle by the
\* time it returns, whatever the exit path.
HandleReleasedOnReturn ==
    (pc = "returned" /\ handle # "none") => handle = "closed"

\* C2: ffmpeg() either returns a fully populated descriptor or returns no
\* result; a returned result never lacks a field, a stream or a list.
AllOrNothing ==
    (pc = "returned" /\ fn = "ffmpeg") =>
        \/ ret = "NULL" /\ pyerr # "none"
        \/ ret = "result" /\ FullyPopulated

\* C3: when ffmpeg() fails while assembling the result, the reference it
\* holds on every object it created has been released exactly once.
PartialStateReleased ==
    (pc = "returned" /\ fn = "ffmpeg" /\ ret = "NULL") =>
        \A obj \in DOMAIN decrefs : decrefs[obj] = 1

\* C4: a successful ffmpeg() call on a file with N streams returns a streams
\* list of exactly N entries whose entry at position i has index i.
StreamsIndexed ==
    (Success /\ fn = "ffmpeg") =>
        /\ "streams" \in DOMAIN result
        /\ Len(result.streams) = nb_streams
        /\ \A p \in 1..Len(result.streams) :
             /\ "index" \in DOMAIN result.streams[p]
             /\ result.streams[p].index = p - 1

StreamsIndexedWitness ==
    /\ Success
    /\ fn = "ffmpeg"
    /\ nb_streams >= 2
    /\ Len(result.streams) = nb_streams

\* C5: on a successful ffmpeg() call the fields of every stream descriptor
\* are exactly those of its kind, none missing and none extra.
FieldsMatchKind ==
    (Success /\ fn = "ffmpeg") =>
        \A p \in 1..nb_streams :
            /\ Described(p)
            /\ DOMAIN result.streams[p] =
                   KindFields(fmt_ctx.streams[p].codec_type)

FieldsMatchKindWitness ==
    /\ Success
    /\ fn = "ffmpeg"
    /\ \E p, q \in 1..nb_streams :
         /\ Described(p) /\ Described(q)
         /\ fmt_ctx.streams[p].codec_type = "AUDIO"
         /\ IsSubtitle(fmt_ctx.streams[q])
         /\ "format" \in DOMAIN result.streams[q]

\* duration_sec = duration * time_base > 0 (time_base.den is positive)
DurationSecPositive(stream) == stream.duration * stream.time_base.num > 0

\* floor(file_size * 8 / duration_sec) for a positive duration_sec
FloorEstimate(stream, file_size) ==
    (file_size * 8 * stream.time_base.den)
        \div (stream.duration * stream.time_base.num)

\* C6: the bit_rate emitted for a video stream is the reported one when that
\* is not 0, and floor(file_size * 8 / duration_sec) when it is 0 and both
\* duration_sec and file_size are positive.
VideoBitRateEmitted ==
    (Success /\ fn = "ffmpeg") =>
        \A p \in 1..nb_streams :
            LET stream == fmt_ctx.streams[p] IN
            (IsVideo(stream) /\ Described(p)) =>
                /\ stream.bit_rate # 0 =>
                       result.streams[p].bit_rate = stream.bit_rate
                /\ ( /\ stream.bit_rate = 0
                     /\ DurationSecPositive(stream)
                     /\ fmt_ctx.file_size > 0 ) =>
                       result.streams[p].bit_rate =
                           FloorEstimate(stream, fmt_ctx.file_size)

\* C7: a video stream with reported bitrate 0 gets bit_rate 0 whenever
\* duration_sec > 0 and file_size > 0 do not both hold.
VideoBitRateZero ==
    (Success /\ fn = "ffmpeg") =>
        \A p \in 1..nb_streams :
            LET stream == fmt_ctx.streams[p] IN
            ( /\ IsVideo(stream)
              /\ Described(p)
              /\ stream.bit_rate = 0
              /\ ~(DurationSecPositive(stream) /\ fmt_ctx.file_size > 0) ) =>
                result.streams[p].bit_rate = 0

\* C8: on a successful ffmpeg() call the result has a chapters field exactly
\* when the file has chapters, and then the list has one entry per chapter,
\* in the file's order, each with the chapter's id.
ChaptersPreserved ==
    (Success /\ fn = "ffmpeg") =>
        /\ "chapters" \in DOMAIN result <=> nb_chapters > 0
        /\ "chapters" \in DOMAIN result =>
             /\ Len(result.chapters) = nb_chapters
             /\ \A p \in 1..Len(result.chapters) :
                  /\ "id" \in DOMAIN result.chapters[p]
                  /\ result.chapters[p].id = fmt_ctx.chapters[p].id

ChaptersPreservedWitness ==
    /\ Success
    /\ fn = "ffmpeg"
    /\ nb_chapters >= 2
    /\ "chapters" \in DOMAIN result
    /\ result.chapters[1].id > result.chapters[2].id

\* the call is describing (or died describing) video stream i + 1
AtVideoStream ==
    /\ fn = "ffmpeg"
    /\ pc \in {"fields", "crashed"}
    /\ IsVideo(fmt_ctx.streams[i + 1])

\* C9: whatever the codec and the profile code of a video stream, the call
\* gets past profile_name and has emitted a non-empty string for it.
ProfileNameEmitted ==
    /\ (AtVideoStream /\ pc = "crashed") => Plan[k].key # "profile_name"
    /\ ( /\ AtVideoStream
         /\ pc = "fields"
         /\ pyerr = "none"
         /\ \E done \in 1..(k - 1) : Plan[done].key = "profile_name" ) =>
           /\ "profile_name" \in DOMAIN stream_dict
           /\ stream_dict.profile_name # ""

\* C10: the format of a subtitle stream is exactly the four bytes of its
\* codec tag, least significant first, one character each.
FormatIsFourBytes ==
    (Success /\ fn = "ffmpeg") =>
        \A p \in 1..nb_streams :
            (IsSubtitle(fmt_ctx.streams[p]) /\ Described(p)) =>
                /\ Len(result.streams[p].format) = 4
                /\ \A b \in 0..3 :
                     result.streams[p].format[b + 1] =
                         TagByte(fmt_ctx.streams[p].codec_tag, b)

====
